---- MODULE Spec2Model ----
(***************************************************************************)
(* Job portal: the application lifecycle (server/routes/applications.js    *)
(* over server/models/Application.js and server/models/Job.js).            *)
(*                                                                         *)
(* Every request is a sequence of steps separated by the handler's awaits. *)
(* A step is one storage operation (a read, an insert or an update of one  *)
(* document, each atomic at the store) together with the synchronous code  *)
(* that runs around it.  Requests overlap freely: the handlers take no     *)
(* lock and open no transaction.  Code that runs between two storage       *)
(* operations and reads nothing but the request and the copy it loaded is  *)
(* taken together with the operation before it.                            *)
(*                                                                         *)
(* A save of a loaded document sends only the paths the handler modified:  *)
(* a changed scalar as a set, array pushes as pushes.  A path assigned the *)
(* value it already had in the loaded copy is not modified.                *)
(***************************************************************************)
EXTENDS Integers, Sequences, FiniteSets, Bags, TLC

\* ---- bounds ----
MaxRequests == 2      \* requests started in one behaviour
MaxClock == 2         \* values the wall clock takes
MaxExperience == 10   \* entries in a candidate's experience list
MaxListLen == 7       \* entries in a snapshot list of an application

\* ---- users ----
Candidates == {"c1", "c2"}
Employers == {"e1", "e2"}
Admins == {"a1"}
Users == Candidates \cup Employers \cup Admins

role(u) ==
  IF u \in Candidates THEN "candidate"
  ELSE IF u \in Employers THEN "employer" ELSE "admin"

\* middleware/auth: candidate lets candidates through, employer lets
\* employers and admins through
candidate(u) == role(u) = "candidate"
employer(u) == role(u) \in {"employer", "admin"}

\* candidateProfile list lengths <<skills, experience, education>>
candidateProfile(u) ==
  IF u = "c1" THEN <<2, 1, 1>> ELSE <<0, 0, 0>>

\* the users as they registered: all active
registered == [u \in Users |-> [role |-> role(u), isActive |-> TRUE]]

\* ---- enums ----
StatusEnum == {"applied", "reviewing", "shortlisted", "interview-scheduled",
               "interviewed", "offered", "hired", "rejected", "withdrawn"}
TimelineActionEnum == {"applied", "viewed", "shortlisted", "interview-scheduled",
                       "interviewed", "offered", "hired", "rejected", "withdrawn"}

\* ---- jobs ----
JobIds == {"j1", "j2", "j3"}
MissingJob == "j0"
OfferAmounts == {1}
\* bodies of POST /:id/evaluate; a field at 0 is not in the body
EvalBodies == {[technicalSkills |-> 3, overallRating |-> 0],
               [technicalSkills |-> 0, overallRating |-> 4]}
\* _id values a request may name; the higher ones may not exist
AppIds == 1..Cardinality(Candidates)

VARIABLES
  jobs,       \* Job collection: id -> document
  apps,       \* Application collection, in insertion order; _id = position
  inflight,   \* bag of the requests between their first and last step
  started,    \* number of requests started
  clock,      \* wall clock (what new Date() returns)
  last,       \* the response last sent
  calc,       \* a call of calculateJobMatch: its arguments and its result
  users       \* User collection: id -> role and isActive

vars == <<jobs, apps, inflight, started, clock, last, calc, users>>

\* evaluation sub-record; 0 is a rating that is not set
NoEvaluation == [technicalSkills |-> 0, overallRating |-> 0]

NoDoc == [job |-> "", applicant |-> "", employer |-> "", status |-> "",
          timeline |-> <<>>, interview |-> [scheduled |-> FALSE],
          offer |-> [amount |-> 0, accepted |-> FALSE],
          evaluation |-> NoEvaluation, matchScore |-> -1]

NoUpd == [status |-> "", push |-> <<>>, interview |-> FALSE,
          offer |-> "", amount |-> 0,
          evalSet |-> FALSE, evaluation |-> NoEvaluation]

NoResp == [op |-> "", code |-> 0, msg |-> ""]

Min(a, b) == IF a < b THEN a ELSE b

\* ---- calculateJobMatch (server/routes/jobs.js) ----

\* strings are sequences of characters
UpperCaseLetters == <<"A", "B", "C", "D", "E", "F", "G", "H", "I", "J", "K", "L", "M",
                      "N", "O", "P", "Q", "R", "S", "T", "U", "V", "W", "X", "Y", "Z">>
LowerCaseLetters == <<"a", "b", "c", "d", "e", "f", "g", "h", "i", "j", "k", "l", "m",
                      "n", "o", "p", "q", "r", "s", "t", "u", "v", "w", "x", "y", "z">>

\* String.prototype.toLowerCase
toLowerCase(str) ==
  [i \in 1..Len(str) |->
     IF \E k \in 1..26 : UpperCaseLetters[k] = str[i]
     THEN LowerCaseLetters[CHOOSE k \in 1..26 : UpperCaseLetters[k] = str[i]]
     ELSE str[i]]

\* String.prototype.includes: part occurs in str as a substring
includes(str, part) ==
  \E i \in 0..(Len(str) - Len(part)) : SubSeq(str, i + 1, i + Len(part)) = part

JavaScript == <<"J", "a", "v", "a", "S", "c", "r", "i", "p", "t">>
Java == <<"J", "a", "v", "a">>
React == <<"R", "e", "a", "c", "t">>
react == <<"r", "e", "a", "c", "t">>
NodeJs == <<"N", "o", "d", "e", ".", "j", "s">>
MongoDB == <<"M", "o", "n", "g", "o", "D", "B">>
Paris == <<"P", "a", "r", "i", "s">>
paris == <<"p", "a", "r", "i", "s">>
Orly == <<"O", "r", "l", "y">>
Lyon == <<"L", "y", "o", "n">>
Rome == <<"R", "o", "m", "e">>
IDF == <<"I", "D", "F">>
idf == <<"i", "d", "f">>
ARA == <<"A", "R", "A">>
Lazio == <<"L", "a", "z", "i", "o">>
France == <<"F", "r", "a", "n", "c", "e">>
france == <<"f", "r", "a", "n", "c", "e">>
Italy == <<"I", "t", "a", "l", "y">>
NoString == << >>

\* candidateProfile.skills of the candidates considered
CandidateSkills ==
  {<< >>, <<JavaScript, React>>, <<react>>, <<Java, JavaScript>>}

\* requirements.skills of the jobs considered
JobSkills ==
  {<< >>, <<React, NodeJs, MongoDB>>, <<React>>, <<JavaScript>>}

JobTypes == {"full-time", "part-time"}
PreferredJobTypes == {<< >>, <<"full-time">>}
Levels == {"entry", "junior", "mid", "senior", "lead", "executive"}

\* profile.location of a user: not there at all, or a record whose fields
\* may be missing (an empty string stands for a missing field: both are falsy)
UserLocations ==
  {[present |-> FALSE, city |-> NoString, state |-> NoString, country |-> NoString],
   [present |-> TRUE, city |-> NoString, state |-> NoString, country |-> NoString],
   [present |-> TRUE, city |-> Paris, state |-> IDF, country |-> France],
   [present |-> TRUE, city |-> NoString, state |-> NoString, country |-> France]}

\* location of a job: remote defaults to false, so the record is always there
JobLocations ==
  {[remote |-> rem, city |-> l[1], state |-> l[2], country |-> l[3]] :
     rem \in BOOLEAN,
     l \in {<<paris, idf, france>>, <<Orly, idf, France>>, <<Lyon, ARA, france>>,
            <<Rome, Lazio, Italy>>, <<NoString, NoString, NoString>>}}

\* the users calculateJobMatch is called with
MatchUsers ==
  [role : {"candidate"}, location : UserLocations, skills : CandidateSkills,
   preferredJobTypes : PreferredJobTypes, experience : 0..MaxExperience]
  \cup
  [role : {"employer"}, location : {CHOOSE l \in UserLocations : ~l.present},
   skills : {<< >>}, preferredJobTypes : {<< >>}, experience : {0}]

\* the jobs calculateJobMatch is called with
MatchJobs ==
  [skills : JobSkills, location : JobLocations, jobType : JobTypes, level : Levels]

\* the result for a caller who is not a candidate
null == -1

\* candidateSkills.filter(skill => jobSkills.some(...)).length
matchingSkills(candidateSkills, jobSkills) ==
  Cardinality({i \in 1..Len(candidateSkills) :
     \E k \in 1..Len(jobSkills) :
        \/ includes(toLowerCase(jobSkills[k]), toLowerCase(candidateSkills[i]))
        \/ includes(toLowerCase(candidateSkills[i]), toLowerCase(jobSkills[k]))})

\* the divisor taken as the smaller of the two lengths
skillDivisorMin(candidateSkills, jobSkills) ==
  Min(Len(candidateSkills), Len(jobSkills))

\* Math.max(candidateSkills.length, jobSkills.length)
skillDivisor(candidateSkills, jobSkills) ==
  IF Len(candidateSkills) > Len(jobSkills) THEN Len(candidateSkills)
  ELSE Len(jobSkills)

\* a job or candidate without skills counted as a full match
skillRatioFullWhenEmpty(candidateSkills, jobSkills) ==
  IF Len(candidateSkills) > 0 /\ Len(jobSkills) > 0
  THEN <<matchingSkills(candidateSkills, jobSkills),
         skillDivisor(candidateSkills, jobSkills)>>
  ELSE <<1, 1>>

\* the fraction matchingSkills.length / Math.max(...) as <<numerator,
\* denominator>>; nothing is added when either list is empty
skillRatio(candidateSkills, jobSkills) ==
  IF Len(candidateSkills) > 0 /\ Len(jobSkills) > 0
  THEN <<matchingSkills(candidateSkills, jobSkills),
         skillDivisor(candidateSkills, jobSkills)>>
  ELSE <<0, 1>>

\* a.toLowerCase() === b.toLowerCase() behind the truthiness test of both
sameName(a, b) ==
  a # NoString /\ b # NoString /\ toLowerCase(a) = toLowerCase(b)

\* the location tiers added up instead of the first one winning
locationScoreCumulative(userLocation, jobLocation) ==
  IF ~userLocation.present THEN 0
  ELSE IF jobLocation.remote THEN 20
  ELSE (IF sameName(userLocation.city, jobLocation.city) THEN 20 ELSE 0)
       + (IF sameName(userLocation.state, jobLocation.state) THEN 15 ELSE 0)
       + (IF sameName(userLocation.country, jobLocation.country) THEN 10 ELSE 0)

\* the location block: the test of userLocation comes before the remote test
locationScore(userLocation, jobLocation) ==
  IF ~userLocation.present THEN 0
  ELSE IF jobLocation.remote THEN 20
  ELSE IF sameName(userLocation.city, jobLocation.city) THEN 20
  ELSE IF sameName(userLocation.state, jobLocation.state) THEN 15
  ELSE IF sameName(userLocation.country, jobLocation.country) THEN 10
  ELSE 0

\* preferredJobTypes.includes(job.jobType)
jobTypeScore(preferredJobTypes, jobType) ==
  IF \E i \in 1..Len(preferredJobTypes) : preferredJobTypes[i] = jobType
  THEN 15 ELSE 0

\* the experience bands by job level
experienceScore(jobLevel, userExperience) ==
  IF jobLevel = "entry" /\ userExperience <= 1 THEN 15
  ELSE IF jobLevel = "junior" /\ userExperience <= 3 THEN 15
  ELSE IF jobLevel = "mid" /\ userExperience >= 2 /\ userExperience <= 7 THEN 15
  ELSE IF jobLevel = "senior" /\ userExperience >= 5 THEN 15
  ELSE IF jobLevel = "lead" /\ userExperience >= 7 THEN 15
  ELSE IF jobLevel = "executive" /\ userExperience >= 10 THEN 15
  ELSE 0

\* the score cut down to its integer part
truncScore(ratio, rest) == (50 * ratio[1]) \div ratio[2] + rest

\* Math.round((n / d) * 50 + rest): the nearest integer, halves upwards.
\* Exact for the list lengths considered (d <= 3), where the floating point
\* product is never within rounding error of a half.
roundScore(ratio, rest) ==
  (2 * 50 * ratio[1] + ratio[2]) \div (2 * ratio[2]) + rest

calculateJobMatch(job, user) ==
  IF user.role # "candidate" THEN null
  ELSE roundScore(skillRatio(user.skills, job.skills),
                  locationScore(user.location, job.location)
                  + jobTypeScore(user.preferredJobTypes, job.jobType)
                  + experienceScore(job.level, user.experience))

\* no call of calculateJobMatch is looked at
NoCalc ==
  [job |-> CHOOSE j \in MatchJobs : TRUE, user |-> CHOOSE u \in MatchUsers : TRUE,
   called |-> FALSE, score |-> 0]

\* ---- Application model ----

\* new Application({...}): status takes its default and is not a modified path
newApplication(job, applicant, company) ==
  [job |-> job, applicant |-> applicant, employer |-> company,
   status |-> "applied", timeline |-> <<>>,
   interview |-> [scheduled |-> FALSE],
   offer |-> [amount |-> 0, accepted |-> FALSE],
   evaluation |-> NoEvaluation, matchScore |-> -1]

\* pre('save'): the entries the hook pushes
preSave(statusModified, status, company, now) ==
  IF statusModified
  THEN << [action |-> status, date |-> now, performedBy |-> company, notes |-> ""] >>
  ELSE << >>

\* updateStatus up to its save: the update the save sends for a loaded doc
updateStatus(doc, newStatus, performedBy, notes, now) ==
  LET modified == newStatus # doc.status
  IN [status |-> IF modified THEN newStatus ELSE "",
      push |-> << [action |-> newStatus, date |-> now,
                   performedBy |-> performedBy, notes |-> notes] >>
               \o preSave(modified, newStatus, doc.employer, now)]

\* schema validation of the pushed timeline entries
validTimeline(push) ==
  \A i \in 1..Len(push) : push[i].action \in TimelineActionEnum

\* calculateMatchScore without the cap on the skills term
calculateMatchScoreNoSkillCap(p) ==
  LET s == IF p[1] > 0 THEN p[1] * 10 ELSE 0
      e == IF p[2] > 0 THEN Min(p[2] * 5, 30) ELSE 0
      d == IF p[3] > 0 THEN Min(p[3] * 5, 20) ELSE 0
  IN Min(s + e + d, 100)

calculateMatchScore(p) ==
  LET s == IF p[1] > 0 THEN Min(p[1] * 10, 50) ELSE 0
      e == IF p[2] > 0 THEN Min(p[2] * 5, 30) ELSE 0
      d == IF p[3] > 0 THEN Min(p[3] * 5, 20) ELSE 0
  IN Min(s + e + d, 100)

\* applyUpdate writing the pushed entries over the stored timeline
applyUpdateOverwrite(d, u) ==
  [d EXCEPT !.status = IF u.status # "" THEN u.status ELSE @,
            !.timeline = u.push,
            !.interview = IF u.interview THEN [scheduled |-> TRUE] ELSE @,
            !.offer = IF u.offer = "whole" THEN [amount |-> u.amount, accepted |-> FALSE]
                      ELSE IF u.offer = "accepted" THEN [@ EXCEPT !.accepted = TRUE]
                      ELSE @,
            !.evaluation = IF u.evalSet THEN u.evaluation ELSE @]

\* the store applying one update to one application document
applyUpdate(d, u) ==
  [d EXCEPT !.status = IF u.status # "" THEN u.status ELSE @,
            !.timeline = @ \o u.push,
            !.interview = IF u.interview THEN [scheduled |-> TRUE] ELSE @,
            !.offer = IF u.offer = "whole" THEN [amount |-> u.amount, accepted |-> FALSE]
                      ELSE IF u.offer = "accepted" THEN [@ EXCEPT !.accepted = TRUE]
                      ELSE @,
            !.evaluation = IF u.evalSet THEN u.evaluation ELSE @]

\* the index on {job, applicant} without its unique option
uniqueIndexNotUnique(coll, doc) == TRUE

\* unique index {job, applicant}
uniqueIndexAllows(coll, doc) ==
  \A i \in 1..Len(coll) :
    ~(coll[i].job = doc.job /\ coll[i].applicant = doc.applicant)

\* ---- requests ----
StatusOps == {"status", "interview", "offer", "accept-offer", "withdraw"}

respond(r, code, msg) == [op |-> r.op, code |-> code, msg |-> msg]

newRequest(op, actor, job, app, arg) ==
  [op |-> op, actor |-> actor, job |-> job, app |-> app, arg |-> arg,
   pc |-> "", doc |-> NoDoc, cnt |-> 0, upd |-> NoUpd, body |-> NoEvaluation]

\* a request answers before it awaits anything
Reject(r, code, msg) ==
  /\ last' = respond(r, code, msg)
  /\ UNCHANGED <<inflight, calc, users>>

\* a request goes on to its first await
Admit(r) ==
  /\ inflight' = inflight (+) SetToBag({r})
  /\ UNCHANGED <<last, calc, users>>

\* a request in flight goes on to its next await
Step(r, r2) ==
  /\ inflight' = (inflight (-) SetToBag({r})) (+) SetToBag({r2})
  /\ UNCHANGED <<last, calc, users>>

\* a request in flight answers
Finish(r, code, msg) ==
  /\ inflight' = inflight (-) SetToBag({r})
  /\ last' = respond(r, code, msg)
  /\ UNCHANGED <<calc, users>>

\* j1 is an approved active job of e1, j2 a job of e2 waiting for approval,
\* j3 an approved job of e2 that was closed
seedJobs(count) ==
  [j \in JobIds |->
     IF j = "j1"
     THEN [company |-> "e1", status |-> "active", approved |-> TRUE,
           applicationCount |-> count, views |-> 0]
     ELSE IF j = "j2"
     THEN [company |-> "e2", status |-> "active", approved |-> FALSE,
           applicationCount |-> 0, views |-> 0]
     ELSE [company |-> "e2", status |-> "closed", approved |-> TRUE,
           applicationCount |-> 0, views |-> 0]]

\* the store before any application was submitted
InitApply ==
  /\ jobs = seedJobs(0)
  /\ apps = << >>
  /\ inflight = EmptyBag
  /\ started = 0
  /\ clock = 1
  /\ last = NoResp
  /\ calc = NoCalc
  /\ users = registered

\* the application a completed POST /api/applications of c1 to j1 leaves
submitted ==
  [newApplication("j1", "c1", "e1") EXCEPT
     !.matchScore = calculateMatchScore(candidateProfile("c1"))]

\* the store after c1 applied to j1: the lifecycle routes start from here
Init ==
  /\ jobs = seedJobs(1)
  /\ apps = << submitted >>
  /\ inflight = EmptyBag
  /\ started = 0
  /\ clock = 1
  /\ last = NoResp
  /\ calc = NoCalc
  /\ users = registered

\* ---- POST /api/applications ----

existingApplication(coll, job, applicant) ==
  \E i \in 1..Len(coll) : coll[i].job = job /\ coll[i].applicant = applicant

\* the job check without its approved test
acceptingWithoutApproval(job) == job.status = "active"

\* job.status !== 'active' || !job.approved, negated
acceptingApplications(job) == job.status = "active" /\ job.approved

\* [auth, candidate]; Job.findById answers; the job checks
Submit(actor, job) ==
  /\ started < MaxRequests
  /\ started' = started + 1
  /\ LET r == newRequest("apply", actor, job, 0, "")
     IN IF ~candidate(actor)
        THEN Reject(r, 403, "Access denied")
        ELSE IF job \notin DOMAIN jobs
        THEN Reject(r, 404, "Job not found")
        ELSE IF ~acceptingApplications(jobs[job])
        THEN Reject(r, 400, "This job is not accepting applications")
        ELSE Admit([r EXCEPT !.pc = "findExisting",
                             !.cnt = jobs[job].applicationCount])
  /\ UNCHANGED <<jobs, apps, clock>>

\* Application.findOne answers; the document is built
FindExisting(r) ==
  /\ r.pc = "findExisting"
  /\ IF existingApplication(apps, r.job, r.actor)
     THEN Finish(r, 400, "You have already applied to this job")
     ELSE Step(r, [r EXCEPT !.pc = "insert"])
  /\ UNCHANGED <<jobs, apps, started, clock>>

\* application.save(): the pre-save hook, then the insert under the unique
\* index; a duplicate key error lands in the catch block
Insert(r) ==
  /\ r.pc = "insert"
  /\ LET fresh == newApplication(r.job, r.actor, jobs[r.job].company)
         doc == [fresh EXCEPT !.timeline =
                   @ \o preSave(FALSE, fresh.status, fresh.employer, clock)]
     IN IF uniqueIndexAllows(apps, doc)
        THEN /\ apps' = Append(apps, doc)
             /\ Step(r, [r EXCEPT !.pc = "score", !.app = Len(apps) + 1,
                                  !.doc = doc])
        ELSE /\ Finish(r, 500, "Server error")
             /\ UNCHANGED apps
  /\ UNCHANGED <<jobs, started, clock>>

\* application.calculateMatchScore(): sets matchScore and saves
Score(r) ==
  /\ r.pc = "score"
  /\ apps' = [apps EXCEPT ![r.app].matchScore =
                calculateMatchScore(candidateProfile(r.actor))]
  /\ Step(r, [r EXCEPT !.pc = "increment"])
  /\ UNCHANGED <<jobs, started, clock>>

\* incrementApplications adding two
incrementApplicationsTwice(count) == count + 2

\* incrementApplications saving the count it loaded
incrementApplicationsNot(count) == count

\* this.applicationCount += 1 on the loaded copy
incrementApplications(count) == count + 1

\* job.incrementApplications() on the copy of the job the request loaded,
\* then the populated re-read and the 201
Increment(r) ==
  /\ r.pc = "increment"
  /\ jobs' = [jobs EXCEPT ![r.job].applicationCount = incrementApplications(r.cnt)]
  /\ Finish(r, 201, "Application submitted successfully")
  /\ UNCHANGED <<apps, started, clock>>

NextApply ==
  \/ \E actor \in Users, job \in JobIds \cup {MissingJob} : Submit(actor, job)
  \/ \E r \in BagToSet(inflight) : FindExisting(r)
  \/ \E r \in BagToSet(inflight) : Insert(r)
  \/ \E r \in BagToSet(inflight) : Score(r)
  \/ \E r \in BagToSet(inflight) : Increment(r)

SpecApply == InitApply /\ [][NextApply]_vars

\* POST /api/applications with no two requests overlapping
NextApplySeq ==
  \/ \E actor \in Users, job \in JobIds \cup {MissingJob} :
       inflight = EmptyBag /\ Submit(actor, job)
  \/ \E r \in BagToSet(inflight) : FindExisting(r)
  \/ \E r \in BagToSet(inflight) : Insert(r)
  \/ \E r \in BagToSet(inflight) : Score(r)
  \/ \E r \in BagToSet(inflight) : Increment(r)

\* the store is empty, or holds what an earlier submission of c1 to j1 left
InitApplySeq == InitApply \/ Init

SpecApplySeq == InitApplySeq /\ [][NextApplySeq]_vars

\* the save of calculateMatchScore is refused by the store: the error lands
\* in the catch block
ScoreFails(r) ==
  /\ r.pc = "score"
  /\ Finish(r, 500, "Server error")
  /\ UNCHANGED <<jobs, apps, started, clock>>

\* the save of incrementApplications is refused by the store
IncrementFails(r) ==
  /\ r.pc = "increment"
  /\ Finish(r, 500, "Server error")
  /\ UNCHANGED <<jobs, apps, started, clock>>

\* POST /api/applications over a store whose writes can fail
NextApplyFaults ==
  \/ NextApply
  \/ \E r \in BagToSet(inflight) : ScoreFails(r)
  \/ \E r \in BagToSet(inflight) : IncrementFails(r)

SpecApplyFaults == InitApply /\ [][NextApplyFaults]_vars

\* ---- GET /api/jobs/:id ----

\* callers of a route behind optionalAuth
Callers == Users \cup {"anonymous"}

\* a views increment computed from the copy the request loaded
viewsFromLoadedCopy(stored, loaded) == loaded + 1

\* { $inc: { views: 1 } } applied by the store
incViews(stored, loaded) == stored + 1

\* optionalAuth; Job.findById(...).lean() answers
GetJob(actor, job) ==
  /\ started < MaxRequests
  /\ started' = started + 1
  /\ LET r == newRequest("get-job", actor, job, 0, "")
     IN IF job \notin DOMAIN jobs
        THEN Reject(r, 404, "Job not found")
        ELSE Admit([r EXCEPT !.pc = "incViews", !.cnt = jobs[job].views])
  /\ UNCHANGED <<jobs, apps, clock>>

\* Job.findByIdAndUpdate(id, { $inc: { views: 1 } }), then the job that was
\* read is sent (with its match score when the caller is a candidate)
IncViews(r) ==
  /\ r.pc = "incViews"
  /\ jobs' = [jobs EXCEPT ![r.job].views = incViews(@, r.cnt)]
  /\ Finish(r, 200, "ok")
  /\ UNCHANGED <<apps, started, clock>>

NextViews ==
  \/ \E actor \in Callers, job \in JobIds \cup {MissingJob} : GetJob(actor, job)
  \/ \E r \in BagToSet(inflight) : IncViews(r)

SpecViews == InitApply /\ [][NextViews]_vars

\* ---- the jobs router (server/routes/jobs.js) ----

\* the routes in the order router.get/post/put/delete registers them
jobsRouter ==
  << [method |-> "GET", path |-> << >>, handler |-> "list-jobs"],
     [method |-> "GET", path |-> <<":id">>, handler |-> "get-job"],
     [method |-> "POST", path |-> << >>, handler |-> "create-job"],
     [method |-> "PUT", path |-> <<":id">>, handler |-> "update-job"],
     [method |-> "DELETE", path |-> <<":id">>, handler |-> "delete-job"],
     [method |-> "GET", path |-> <<"employer", "my-jobs">>, handler |-> "my-jobs"],
     [method |-> "GET", path |-> <<"recommended">>, handler |-> "recommended"],
     [method |-> "POST", path |-> <<":id", "approve">>, handler |-> "approve-job"] >>

\* a route path matches segment by segment; a parameter matches any segment
matchPath(pattern, path) ==
  /\ Len(pattern) = Len(path)
  /\ \A i \in 1..Len(pattern) : pattern[i] = ":id" \/ pattern[i] = path[i]

\* the router hands a request to the first registered route that matches it;
\* no handler of this router passes the request on
matchRoute(method, path) ==
  LET hits == {i \in 1..Len(jobsRouter) :
                 jobsRouter[i].method = method /\ matchPath(jobsRouter[i].path, path)}
  IN IF hits = {} THEN "none"
     ELSE jobsRouter[CHOOSE i \in hits : \A k \in hits : i <= k].handler

\* the strings Job.findById can cast to an ObjectId
ObjectIds == JobIds \cup {MissingJob}

\* the one-segment GET paths requested
GetPaths == {<<id>> : id \in ObjectIds} \cup {<<"recommended">>}

\* GET /api/jobs/<path>: the router picks the handler.  The job handler's
\* findById throws on an id it cannot cast, which its catch answers; the
\* recommended handler checks the role, runs its one query and answers
\* with the jobs found, each with its matchScore
Get(actor, path) ==
  LET handler == matchRoute("GET", path)
      r == newRequest(handler, actor, "", 0, "")
  IN IF handler = "get-job"
     THEN IF path[1] \in ObjectIds
          THEN GetJob(actor, path[1])
          ELSE /\ started < MaxRequests
               /\ started' = started + 1
               /\ Reject(r, 500, "Server error")
               /\ UNCHANGED <<jobs, apps, clock>>
     ELSE /\ handler = "recommended"
          /\ started < MaxRequests
          /\ started' = started + 1
          /\ IF actor \notin Users
             THEN Reject(r, 401, "No token, authorization denied")
             ELSE IF role(actor) # "candidate"
             THEN Reject(r, 403, "Only candidates can access recommended jobs")
             ELSE Reject(r, 200, "ok")
          /\ UNCHANGED <<jobs, apps, clock>>

NextRoute ==
  \/ \E actor \in Callers, path \in GetPaths : Get(actor, path)
  \/ \E r \in BagToSet(inflight) : IncViews(r)

SpecRoute == InitApply /\ [][NextRoute]_vars

\* ---- POST, PUT, DELETE /api/jobs and POST /api/jobs/:id/approve ----

\* the id the next created job gets
NewJobId == "j4"

\* employerProfile.verified of the users
verified(u) == u = "e1"

\* request bodies of POST and PUT /api/jobs: the status they carry ("" for
\* none) and whether they carry approved: true; the validators look at
\* neither approved nor any other field they do not name
JobBodies ==
  {[status |-> "", approved |-> FALSE],
   [status |-> "paused", approved |-> FALSE],
   [status |-> "", approved |-> TRUE]}

\* no path of the job is modified
NoJobUpd == [status |-> "", approved |-> FALSE, byBody |-> FALSE]

\* the auto-approval of POST /api/jobs
autoApproved(actor) == role(actor) = "admin" \/ verified(actor)

\* new Job({...req.body, company, companyName}) with the schema defaults
newJob(actor, body) ==
  [company |-> actor,
   status |-> IF body.status # "" THEN body.status ELSE "active",
   approved |-> body.approved \/ autoApproved(actor),
   applicationCount |-> 0, views |-> 0]

\* [auth, employer]; the job is built and inserted, then re-read and sent
CreateJob(actor, body) ==
  /\ started < MaxRequests
  /\ started' = started + 1
  /\ LET r == newRequest("create-job", actor, NewJobId, 0, "")
     IN IF ~employer(actor)
        THEN Reject(r, 403, "Access denied") /\ UNCHANGED jobs
        ELSE /\ NewJobId \notin DOMAIN jobs
             /\ jobs' = jobs @@ (NewJobId :> newJob(actor, body))
             /\ Reject(r, 201, "created")
  /\ UNCHANGED <<apps, clock>>

\* job.company.toString() !== req.user._id.toString() && role !== 'admin'
ownsJob(job, actor) == job.company = actor \/ role(actor) = "admin"

\* the paths Object.assign(job, req.body) modifies on the loaded copy
assignBody(job, body) ==
  [status |-> IF body.status # job.status THEN body.status ELSE "",
   approved |-> body.approved /\ ~job.approved,
   byBody |-> TRUE]

\* the paths the approve handler modifies on the loaded copy
approve(job) ==
  [status |-> "", approved |-> ~job.approved, byBody |-> FALSE]

\* auth; Job.findById answers; the ownership check; the assignments
LoadJob(op, actor, job, body) ==
  /\ started < MaxRequests
  /\ started' = started + 1
  /\ LET r == newRequest(op, actor, job, 0, "")
     IN IF op = "approve-job" /\ role(actor) # "admin"
        THEN Reject(r, 403, "Access denied")
        ELSE IF job \notin DOMAIN jobs
        THEN Reject(r, 404, "Job not found")
        ELSE IF op # "approve-job" /\ ~ownsJob(jobs[job], actor)
        THEN Reject(r, 403, "Not authorized")
        ELSE Admit([r EXCEPT
               !.pc = IF op = "delete-job" THEN "delete" ELSE "save-job",
               !.upd = IF op = "update-job" THEN assignBody(jobs[job], body)
                       ELSE IF op = "approve-job" THEN approve(jobs[job])
                       ELSE NoJobUpd])
  /\ UNCHANGED <<jobs, apps, clock>>

\* job.save() sends the modified paths; a job deleted meanwhile is not
\* written (the request is then answered 500)
SaveJob(r) ==
  /\ r.pc = "save-job"
  /\ IF r.job \in DOMAIN jobs
     THEN /\ jobs' = [jobs EXCEPT
                        ![r.job].status = IF r.upd.status # "" THEN r.upd.status ELSE @,
                        ![r.job].approved = IF r.upd.approved THEN TRUE ELSE @]
          /\ Finish(r, 200, "ok")
     ELSE /\ UNCHANGED jobs
          /\ Finish(r, 500, "Server error")
  /\ UNCHANGED <<apps, started, clock>>

\* Job.findByIdAndDelete(id): the job is removed, and nothing else
DeleteJob(r) ==
  /\ r.pc = "delete"
  /\ jobs' = [j \in DOMAIN jobs \ {r.job} |-> jobs[j]]
  /\ Finish(r, 200, "Job deleted successfully")
  /\ UNCHANGED <<apps, started, clock>>

NextJobs ==
  \/ \E actor \in Users, body \in JobBodies : CreateJob(actor, body)
  \/ \E actor \in Users, job \in JobIds \cup {NewJobId, MissingJob}, body \in JobBodies :
       LoadJob("update-job", actor, job, body)
  \/ \E op \in {"delete-job", "approve-job"}, actor \in Users,
        job \in JobIds \cup {NewJobId, MissingJob} :
       LoadJob(op, actor, job, CHOOSE b \in JobBodies : b.status = "" /\ ~b.approved)
  \/ \E r \in BagToSet(inflight) : SaveJob(r)
  \/ \E r \in BagToSet(inflight) : DeleteJob(r)

\* the job routes on the store that holds c1's application to j1
SpecJobs == Init /\ [][NextJobs]_vars

\* ---- PUT /api/admin/users/:id/status and /role ----

\* the user ids a request may name; the last one is of no user
UserIds == Users \cup {"u0"}

\* middleware/auth admin: the caller's stored role when the request starts
admin(caller) == users[caller].role = "admin"

\* the store after admin a1 made e1 an admin as well
promoted == [registered EXCEPT !["e1"].role = "admin"]

InitAdmin ==
  /\ jobs = seedJobs(0)
  /\ apps = << >>
  /\ inflight = EmptyBag
  /\ started = 0
  /\ clock = 1
  /\ last = NoResp
  /\ calc = NoCalc
  /\ users \in {registered, promoted}

\* [auth, admin]; User.findById answers; the handler refuses to act on the
\* caller's own account; the assignment.  r.job holds req.params.id and
\* r.arg the role to set, r.cnt is 1 when the path assigned is modified
LoadUser(op, caller, id, value) ==
  /\ started < MaxRequests
  /\ started' = started + 1
  /\ LET r == newRequest(op, caller, id, 0, value)
     IN IF ~admin(caller)
        THEN Reject(r, 403, "Access denied")
        ELSE IF id \notin DOMAIN users
        THEN Reject(r, 404, "User not found")
        ELSE IF id = caller
        THEN Reject(r, 400, IF op = "user-role" THEN "Cannot change your own role"
                            ELSE "Cannot deactivate your own account")
        ELSE Admit([r EXCEPT
               !.pc = "save-user",
               !.cnt = IF op = "user-role"
                       THEN (IF users[id].role # value THEN 1 ELSE 0)
                       ELSE (IF users[id].isActive # (value = "active") THEN 1 ELSE 0)])
  /\ UNCHANGED <<jobs, apps, clock>>

\* user.save() sends the modified path; the response
SaveUser(r) ==
  /\ r.pc = "save-user"
  /\ users' = IF r.cnt = 0 THEN users
              ELSE IF r.op = "user-role"
              THEN [users EXCEPT ![r.job].role = r.arg]
              ELSE [users EXCEPT ![r.job].isActive = (r.arg = "active")]
  /\ inflight' = inflight (-) SetToBag({r})
  /\ last' = respond(r, 200, "ok")
  /\ UNCHANGED <<jobs, apps, started, clock, calc>>

NextAdmin ==
  \/ \E caller \in Users, id \in UserIds, value \in {"candidate", "employer", "admin"} :
       LoadUser("user-role", caller, id, value)
  \/ \E caller \in Users, id \in UserIds, value \in {"active", "inactive"} :
       LoadUser("user-status", caller, id, value)
  \/ \E r \in BagToSet(inflight) : SaveUser(r)

SpecAdmin == InitAdmin /\ [][NextAdmin]_vars

\* ---- the status-changing routes ----

middleware(op, actor) ==
  IF op \in {"accept-offer", "withdraw"} THEN candidate(actor) ELSE employer(actor)

forcedStatus(op) ==
  CASE op = "interview" -> "interview-scheduled"
    [] op = "offer" -> "offered"
    [] op = "accept-offer" -> "hired"
    [] op = "withdraw" -> "withdrawn"

statusNotes(op) ==
  CASE op = "status" -> ""
    [] op = "interview" -> "Interview scheduled"
    [] op = "offer" -> "Job offer made"
    [] op = "accept-offer" -> "Offer accepted"
    [] op = "withdraw" -> "Application withdrawn by candidate"

\* authorized without the ownership test of the employer routes
authorizedAnyEmployer(op, doc, actor) ==
  IF op \in {"accept-offer", "withdraw"}
  THEN doc.applicant = actor
  ELSE TRUE

\* authorized without the applicant test of the candidate routes
authorizedAnyCandidate(op, doc, actor) ==
  IF op \in {"accept-offer", "withdraw"}
  THEN TRUE
  ELSE doc.employer = actor \/ role(actor) = "admin"

\* who may act on the loaded application
authorized(op, doc, actor) ==
  IF op \in {"accept-offer", "withdraw"}
  THEN doc.applicant = actor
  ELSE doc.employer = actor \/ role(actor) = "admin"

\* acceptGuard refusing only what was accepted before
acceptGuardLoose(status) == status # "hired"

\* withdrawGuard without its hired disjunct
withdrawGuardNoHired(status) == ~(status = "withdrawn")

\* the status guards of accept-offer and withdraw
acceptGuard(status) == status = "offered"
withdrawGuard(status) == ~(status = "hired" \/ status = "withdrawn")

guardMessage(op) ==
  IF op = "accept-offer" THEN "No offer to accept"
  ELSE "Cannot withdraw application in current status"

statusAllowed(op, status) ==
  CASE op = "accept-offer" -> acceptGuard(status)
    [] op = "withdraw" -> withdrawGuard(status)
    [] OTHER -> TRUE

\* the route's middleware; Application.findById answers; the checks on the
\* loaded copy
Load(op, actor, app, arg) ==
  /\ started < MaxRequests
  /\ started' = started + 1
  /\ LET r == newRequest(op, actor, "", app, arg)
     IN IF ~middleware(op, actor)
        THEN Reject(r, 403, "Access denied")
        ELSE IF app > Len(apps)
        THEN Reject(r, 404, "Application not found")
        ELSE IF ~authorized(op, apps[app], actor)
        THEN Reject(r, 403, "Not authorized")
        ELSE IF ~statusAllowed(op, apps[app].status)
        THEN Reject(r, 400, guardMessage(op))
        ELSE Admit([r EXCEPT !.pc = "handle", !.doc = apps[app]])
  /\ UNCHANGED <<jobs, apps, clock>>

\* the sub-record assignments and updateStatus, up to the save being sent
buildUpdate(r, now) ==
  LET u == updateStatus(r.doc, r.arg, r.actor, statusNotes(r.op), now)
  IN [status |-> u.status, push |-> u.push,
      interview |-> (r.op = "interview"),
      offer |-> IF r.op = "offer" THEN "whole"
                ELSE IF r.op = "accept-offer" THEN "accepted" ELSE "",
      amount |-> IF r.op = "offer" THEN CHOOSE a \in OfferAmounts : TRUE ELSE 0,
      evalSet |-> FALSE, evaluation |-> NoEvaluation]

\* the handler reads the clock, which may have advanced: the assignments,
\* updateStatus, validation and the pre-save hook
Handle(r) ==
  /\ r.pc = "handle"
  /\ \E now \in clock..Min(clock + 1, MaxClock) :
       /\ clock' = now
       /\ LET u == buildUpdate(r, now)
          IN IF validTimeline(u.push)
             THEN Step(r, [r EXCEPT !.pc = "save", !.upd = u])
             ELSE Finish(r, 500, "Server error")
  /\ UNCHANGED <<jobs, apps, started>>

\* the store applies the update; the populated re-read and the 200
Save(r) ==
  /\ r.pc = "save"
  /\ apps' = [apps EXCEPT ![r.app] = applyUpdate(@, r.upd)]
  /\ Finish(r, 200, "ok")
  /\ UNCHANGED <<jobs, started, clock>>

\* ---- POST /api/applications/:id/evaluate ----

\* { ...application.evaluation, ...req.body }
mergeEvaluation(evaluation, body) ==
  [f \in DOMAIN evaluation |-> IF body[f] # 0 THEN body[f] ELSE evaluation[f]]

\* the update the save sends after the evaluation was assigned
evaluateUpdate(doc, body) ==
  LET merged == mergeEvaluation(doc.evaluation, body)
  IN [NoUpd EXCEPT !.evalSet = (merged # doc.evaluation),
                   !.evaluation = merged]

\* [auth, employer]; Application.findById answers; the authorization check;
\* the evaluation is merged and the save issued (status is not modified, so
\* the pre-save hook pushes nothing)
Evaluate(actor, app, body) ==
  /\ started < MaxRequests
  /\ started' = started + 1
  /\ LET r == [newRequest("evaluate", actor, "", app, "") EXCEPT !.body = body]
     IN IF ~middleware("evaluate", actor)
        THEN Reject(r, 403, "Access denied")
        ELSE IF app > Len(apps)
        THEN Reject(r, 404, "Application not found")
        ELSE IF ~authorized("evaluate", apps[app], actor)
        THEN Reject(r, 403, "Not authorized")
        ELSE Admit([r EXCEPT !.pc = "save", !.doc = apps[app],
                             !.upd = evaluateUpdate(apps[app], body)])
  /\ UNCHANGED <<jobs, apps, clock>>

Next ==
  \/ \E actor \in Users, app \in AppIds, s \in StatusEnum :
       Load("status", actor, app, s)
  \/ \E actor \in Users, app \in AppIds, body \in EvalBodies :
       Evaluate(actor, app, body)
  \/ \E op \in StatusOps \ {"status"}, actor \in Users, app \in AppIds :
       Load(op, actor, app, forcedStatus(op))
  \/ \E r \in BagToSet(inflight) : Handle(r)
  \/ \E r \in BagToSet(inflight) : Save(r)

Spec == Init /\ [][Next]_vars

\* the application after the owning employer's request op went through at
\* clock 1 on the submitted application
afterRequest(op, arg) ==
  LET r == [newRequest(op, "e1", "", 1, arg) EXCEPT !.doc = submitted]
  IN applyUpdate(submitted, buildUpdate(r, 1))

\* the store after one request of the owner: an interview was scheduled, an
\* offer was made, or the status was set to hired
InitLater ==
  /\ jobs = seedJobs(1)
  /\ apps \in {<< afterRequest("interview", "interview-scheduled") >>,
               << afterRequest("offer", "offered") >>,
               << afterRequest("status", "hired") >>}
  /\ inflight = EmptyBag
  /\ started = 0
  /\ clock = 1
  /\ last = NoResp
  /\ calc = NoCalc
  /\ users = registered

\* the lifecycle routes on an application that is further along
SpecLater == InitLater /\ [][Next]_vars

\* ---- a call of calculateJobMatch ----

\* any job and any user, with an empty store and no request
InitMatch ==
  /\ jobs = seedJobs(0)
  /\ apps = << >>
  /\ inflight = EmptyBag
  /\ started = 0
  /\ clock = 1
  /\ last = NoResp
  /\ calc \in [job : MatchJobs, user : MatchUsers, called : {FALSE}, score : {0}]
  /\ users = registered

\* job.matchScore = calculateJobMatch(job, req.user)
Calculate ==
  /\ ~calc.called
  /\ calc' = [calc EXCEPT !.called = TRUE,
                          !.score = calculateJobMatch(calc.job, calc.user)]
  /\ UNCHANGED <<jobs, apps, inflight, started, clock, last, users>>

NextMatch == Calculate

SpecMatch == InitMatch /\ [][NextMatch]_vars

\* ---- a call of application.calculateMatchScore ----

\* the jobs applied to: they differ in the skills they require
ScoredJobs ==
  {j \in MatchJobs : /\ j.level = "mid"
                     /\ j.jobType = "full-time"
                     /\ j.location.remote
                     /\ j.location.city = NoString}

\* the lengths of the snapshot lists the route copies from the candidate
Snapshots ==
  [skills : 0..MaxListLen, experience : 0..MaxListLen, education : 0..MaxListLen]

\* an application of any snapshot to any of the jobs, not yet scored
InitMatchScore ==
  /\ jobs = seedJobs(0)
  /\ apps = << >>
  /\ inflight = EmptyBag
  /\ started = 0
  /\ clock = 1
  /\ last = NoResp
  /\ calc \in [job : ScoredJobs, user : Snapshots, called : {FALSE}, score : {0}]
  /\ users = registered

\* await application.calculateMatchScore(): the method reads the snapshot
\* lists of the application and nothing of the job
CalculateMatchScore ==
  /\ ~calc.called
  /\ calc' = [calc EXCEPT
               !.called = TRUE,
               !.score = calculateMatchScore(<<calc.user.skills, calc.user.experience,
                                               calc.user.education>>)]
  /\ UNCHANGED <<jobs, apps, inflight, started, clock, last, users>>

NextMatchScore == CalculateMatchScore

SpecMatchScore == InitMatchScore /\ [][NextMatchScore]_vars

\* ======================= properties =======================

IsPrefix(s, t) == Len(s) <= Len(t) /\ SubSeq(t, 1, Len(s)) = s

hasAction(timeline, a) == \E i \in 1..Len(timeline) : timeline[i].action = a

\* C1: in every reachable state at most one Application document exists for
\* each (job, applicant) pair, however POST /applications requests interleave.
C1_OnePerPair ==
  \A i, j \in 1..Len(apps) :
    (apps[i].job = apps[j].job /\ apps[i].applicant = apps[j].applicant) => i = j

\* two submissions of one candidate both passed the lookup; the second insert
\* was refused and one document exists
C1_Witness ==
  /\ Len(apps) = 1
  /\ last = [op |-> "apply", code |-> 500, msg |-> "Server error"]

\* C2: a POST /applications whose insert is refused because a concurrent
\* request of the same (job, applicant) pair saved first is answered 400
\* 'You have already applied to this job', not a generic server error.
C2_RaceLoserToldAlreadyApplied ==
  [][\A r \in BagToSet(inflight) :
       (Insert(r) /\ existingApplication(apps, r.job, r.actor))
       => last' = [op |-> "apply", code |-> 400,
                   msg |-> "You have already applied to this job"]]_vars

C4_AnyStatusWritable ==
  [][\A r \in BagToSet(inflight) :
       /\ (r.op = "status" /\ Handle(r)) => last' = last
       /\ (r.op = "status" /\ Save(r)) => apps'[r.app].status = r.arg]_vars

\* C5: withdraw by the applicant on an application whose status is hired or
\* withdrawn is answered 400 and leaves the application unchanged.
C5_WithdrawRefused ==
  [][\A actor \in Users, app \in AppIds :
       (/\ app <= Len(apps)
        /\ apps[app].applicant = actor
        /\ apps[app].status \in {"hired", "withdrawn"}
        /\ Load("withdraw", actor, app, "withdrawn"))
       => /\ last' = [op |-> "withdraw", code |-> 400,
                      msg |-> "Cannot withdraw application in current status"]
          /\ apps' = apps
          /\ inflight' = inflight]_vars

\* a withdraw was refused on a hired application
C5_Witness ==
  /\ last = [op |-> "withdraw", code |-> 400,
             msg |-> "Cannot withdraw application in current status"]
  /\ apps[1].status = "hired"
  /\ inflight = EmptyBag

\* C6: acceptOffer by the applicant is answered 400 and changes nothing when
\* the status is not offered; when it is offered the request goes through and
\* its save leaves status = hired and offer.accepted = true.
C6_AcceptOffer ==
  [][/\ \A actor \in Users, app \in AppIds :
          (/\ app <= Len(apps)
           /\ apps[app].applicant = actor
           /\ Load("accept-offer", actor, app, "hired"))
          => IF apps[app].status = "offered"
             THEN last' = last /\ inflight' # inflight /\ apps' = apps
             ELSE /\ last' = [op |-> "accept-offer", code |-> 400,
                              msg |-> "No offer to accept"]
                  /\ apps' = apps
                  /\ inflight' = inflight
     /\ \A r \in BagToSet(inflight) :
          /\ (r.op = "accept-offer" /\ Handle(r)) => last' = last
          /\ (r.op = "accept-offer" /\ Save(r))
             => /\ last'.code = 200
                /\ apps'[r.app].status = "hired"
                /\ apps'[r.app].offer.accepted]_vars

\* an offer was accepted
C6_Witness ==
  /\ last = [op |-> "accept-offer", code |-> 200, msg |-> "ok"]
  /\ apps[1].status = "hired"
  /\ apps[1].offer.accepted

\* C7: the timeline is append-only: over every step, of any request and in
\* any interleaving, the stored timeline before is a prefix of the one after.
C7_TimelineAppendOnly ==
  [][/\ Len(apps) <= Len(apps')
     /\ \A i \in 1..Len(apps) :
          IsPrefix(apps[i].timeline, apps'[i].timeline)]_vars

\* a request still holds a copy with an empty timeline while another request's
\* entries are stored, and its own entries are about to be saved
C7_Witness ==
  \E r \in BagToSet(inflight) :
    /\ r.pc = "save"
    /\ r.doc.timeline = << >>
    /\ Len(apps[r.app].timeline) >= 1

\* C8: the timestamps of a timeline never decrease in timeline order, also
\* when status-changing requests on the application overlap.
C8_TimestampsMonotonic ==
  \A a \in 1..Len(apps) :
    \A i, j \in 1..Len(apps[a].timeline) :
      i < j => apps[a].timeline[i].date <= apps[a].timeline[j].date

\* C9: in every stored state of an application with a non-empty timeline the
\* action of the last timeline entry equals the status.
C9_StatusMatchesLastEntry ==
  \A a \in 1..Len(apps) :
    LET t == apps[a].timeline
    IN Len(t) > 0 => t[Len(t)].action = apps[a].status

\* C10: when POST /applications answers 201 the new application has status
\* applied and its timeline holds an entry with action applied.
C10_AppliedRecorded ==
  [][\A r \in BagToSet(inflight) :
       Increment(r) =>
         /\ apps'[r.app].status = "applied"
         /\ hasAction(apps'[r.app].timeline, "applied")]_vars

\* the request of op was answered 403 and wrote nothing
refused(op) ==
  /\ last' = [op |-> op, code |-> 403, msg |-> "Not authorized"]
  /\ apps' = apps
  /\ inflight' = inflight

\* C11: a status change, interview, evaluation or offer requested by an
\* employer who does not own the application is answered 403 and leaves the
\* application unchanged.
C11_NonOwnerRefused ==
  [][\A actor \in Employers, app \in AppIds :
       (app <= Len(apps) /\ apps[app].employer # actor) =>
         /\ \A s \in StatusEnum :
              Load("status", actor, app, s) => refused("status")
         /\ \A op \in {"interview", "offer"} :
              Load(op, actor, app, forcedStatus(op)) => refused(op)
         /\ \A body \in EvalBodies :
              Evaluate(actor, app, body) => refused("evaluate")]_vars

\* an employer who does not own the application was refused an evaluation
C11_Witness ==
  /\ last = [op |-> "evaluate", code |-> 403, msg |-> "Not authorized"]
  /\ apps[1].employer = "e1"
  /\ apps[1].evaluation = NoEvaluation

\* C12: acceptOffer and withdraw requested by a candidate other than the
\* applicant are answered 403 and leave the application unchanged, whatever
\* its status.
C12_NonApplicantRefused ==
  [][\A actor \in Candidates, app \in AppIds :
       (app <= Len(apps) /\ apps[app].applicant # actor) =>
         \A op \in {"accept-offer", "withdraw"} :
           Load(op, actor, app, forcedStatus(op)) => refused(op)]_vars

\* another candidate was refused a withdraw on a hired application, where the
\* status check alone would have answered 400
C12_Witness ==
  /\ last = [op |-> "withdraw", code |-> 403, msg |-> "Not authorized"]
  /\ apps[1].status = "hired"

\* the applications stored for a job
applicationsOf(job) == {i \in 1..Len(apps) : apps[i].job = job}

created201 == [op |-> "apply", code |-> 201, msg |-> "Application submitted successfully"]

\* C13: when no two requests overlap, the step of POST /applications that
\* answers 201 raises the job's applicationCount by exactly 1 and touches no
\* other job, and every other step of a submission, the rejected ones
\* included, leaves every job as it was.
C13_SequentialCount ==
  [][/\ \A r \in BagToSet(inflight) :
          Increment(r) =>
            /\ last' = created201
            /\ jobs' = [jobs EXCEPT ![r.job].applicationCount = @ + 1]
     /\ (~ \E r \in BagToSet(inflight) : Increment(r)) =>
          jobs' = jobs]_vars

\* the second of two submissions in sequence was stored and counted
C13_Witness ==
  /\ last = created201
  /\ started = 2
  /\ Cardinality(applicationsOf("j1")) = 2
  /\ jobs["j1"].applicationCount = 2

\* C14: the increment is a read-modify-write on the job copy each request
\* loaded, so overlapping submissions can only lose increments: a job's
\* applicationCount never exceeds the applications stored for it, and is at
\* least 1 once a submission to it has been stored and every request answered.
C14_CountAtMostStored ==
  \A j \in JobIds :
    /\ jobs[j].applicationCount <= Cardinality(applicationsOf(j))
    /\ (inflight = EmptyBag /\ applicationsOf(j) # {}) =>
         jobs[j].applicationCount >= 1

\* two candidates' overlapping submissions to j1 both answered 201 and both
\* applications are stored, yet the count went up by one only
C14_Witness ==
  /\ inflight = EmptyBag
  /\ last = created201
  /\ \E i, k \in applicationsOf("j1") : apps[i].applicant # apps[k].applicant
  /\ jobs["j1"].applicationCount = 1

\* the stored views were raised since request r read the job
viewedSince(r) == jobs[r.job].views # r.cnt

\* C15 as stated: the views increment writes the value the request read plus
\* one, so a request that overlapped another loses that one's update.
C15_ViewsUpdateLost ==
  [][\A r \in BagToSet(inflight) :
       (IncViews(r) /\ viewedSince(r)) =>
         jobs'[r.job].views = r.cnt + 1]_vars

\* C15: every GET /jobs/:id that finds the job raises the stored views by
\* exactly 1, also when another request for the same job read it before and
\* updated it in between: no update is lost. A request for a missing job
\* changes no views.
C15_ViewsIncAtomic ==
  [][/\ \A r \in BagToSet(inflight) :
          IncViews(r) =>
            jobs' = [jobs EXCEPT ![r.job].views = @ + 1]
     /\ (~ \E r \in BagToSet(inflight) : IncViews(r)) => jobs' = jobs]_vars

\* two requests read j1 at 0 views, and both updates are stored
C15_Witness ==
  /\ inflight = EmptyBag
  /\ started = 2
  /\ last = [op |-> "get-job", code |-> 200, msg |-> "ok"]
  /\ jobs["j1"].views = 2

\* the submission was refused and nothing was stored or counted
refusedApply(code, msg) ==
  /\ last' = [op |-> "apply", code |-> code, msg |-> msg]
  /\ apps' = apps
  /\ jobs' = jobs

\* C16 as stated: a missing, inactive or unapproved job and an application
\* already stored are answered 400 and nothing is stored or counted; every
\* other submission is answered 201.
C16_Rejected400 ==
  [][/\ \A actor \in Candidates, job \in JobIds \cup {MissingJob} :
          (/\ Submit(actor, job)
           /\ \/ job \notin DOMAIN jobs
              \/ jobs[job].status # "active"
              \/ ~jobs[job].approved) =>
            /\ last'.code = 400
            /\ apps' = apps
            /\ jobs' = jobs
     /\ \A r \in BagToSet(inflight) :
          (FindExisting(r) /\ existingApplication(apps, r.job, r.actor)) =>
            /\ last'.code = 400
            /\ apps' = apps
            /\ jobs' = jobs
     /\ \A r \in BagToSet(inflight) :
          (last' # last /\ ~existingApplication(apps, r.job, r.actor)
             /\ (FindExisting(r) \/ Insert(r) \/ Score(r) \/ Increment(r))) =>
            last'.code = 201]_vars

\* C16: a candidate's submission to a missing job is answered 404, to a job
\* that is not active or not approved 400, and one whose lookup finds the
\* application already stored 400; none of them stores an application or
\* changes an applicationCount. A submission that passes the lookup is stored
\* and answered 201, unless the same application was stored meanwhile: then
\* the insert is refused, nothing is stored or counted, and the answer is 500.
C16_RejectedNothingStored ==
  [][/\ \A actor \in Candidates, job \in JobIds \cup {MissingJob} :
          Submit(actor, job) =>
            IF job \notin DOMAIN jobs
            THEN refusedApply(404, "Job not found") /\ inflight' = inflight
            ELSE IF jobs[job].status # "active" \/ ~jobs[job].approved
            THEN /\ refusedApply(400, "This job is not accepting applications")
                 /\ inflight' = inflight
            ELSE apps' = apps /\ jobs' = jobs /\ last' = last
                 /\ inflight' # inflight
     /\ \A r \in BagToSet(inflight) :
          FindExisting(r) =>
            IF existingApplication(apps, r.job, r.actor)
            THEN refusedApply(400, "You have already applied to this job")
            ELSE apps' = apps /\ jobs' = jobs /\ last' = last
     /\ \A r \in BagToSet(inflight) :
          Insert(r) =>
            IF existingApplication(apps, r.job, r.actor)
            THEN refusedApply(500, "Server error")
            ELSE /\ Len(apps') = Len(apps) + 1
                 /\ apps'[Len(apps')].job = r.job
                 /\ apps'[Len(apps')].applicant = r.actor
                 /\ last' = last
     /\ \A r \in BagToSet(inflight) :
          Increment(r) =>
            /\ last' = created201
            /\ r.app \in applicationsOf(r.job)
            /\ apps[r.app].applicant = r.actor]_vars

\* a candidate's submission to a job that does not exist was answered 404
\* with nothing stored
C16_Witness ==
  /\ last = [op |-> "apply", code |-> 404, msg |-> "Job not found"]
  /\ apps = << >>
  /\ \A j \in JobIds : jobs[j].applicationCount = 0

\* calculateJobMatch has answered a candidate
scored == calc.called /\ calc.user.role = "candidate"

\* the job-type and experience components of the call looked at
otherComponents ==
  jobTypeScore(calc.user.preferredJobTypes, calc.job.jobType)
  + experienceScore(calc.job.level, calc.user.experience)

\* C17: for every job and every candidate, calculateJobMatch returns an
\* integer between 0 and 100.
C17_ScoreInRange == scored => calc.score \in 0..100

\* all four components at their maximum
C17_Witness == scored /\ calc.score = 100

\* C18: for a remote job the location component is 20 for every candidate,
\* also one without a location: the score is the rounded sum of the skill
\* component, 20, and the job-type and experience components.
C18_RemoteAlways20 ==
  (scored /\ calc.job.location.remote) =>
    calc.score = roundScore(skillRatio(calc.user.skills, calc.job.skills),
                            20 + otherComponents)

\* the call of C19: the two skill lists, and no other component contributes
exampleOfC19 ==
  /\ scored
  /\ calc.user.skills = <<JavaScript, React>>
  /\ calc.job.skills = <<React, NodeJs, MongoDB>>
  /\ locationScore(calc.user.location, calc.job.location) = 0
  /\ otherComponents = 0

\* C19 as stated: the score of the example is 16.
C19_ExampleScores16 == exampleOfC19 => calc.score = 16

\* C19: for candidate skills [JavaScript, React] and job skills [React,
\* Node.js, MongoDB] exactly one skill matches out of max(2,3) = 3, and with
\* no other component contributing calculateJobMatch returns 17, which is
\* 50 * 1/3 = 16.67 rounded to the nearest integer.
C19_ExampleScores17 ==
  exampleOfC19 =>
    /\ matchingSkills(calc.user.skills, calc.job.skills) = 1
    /\ skillDivisor(calc.user.skills, calc.job.skills) = 3
    /\ calc.score = 17

\* the example was scored
C19_Witness == exampleOfC19 /\ calc.score = 17

\* C20: when the candidate's skills or the job's skills are empty, the score
\* is the sum of the location, job-type and experience components.
C20_NoSkillsNoSkillScore ==
  (scored /\ (calc.user.skills = << >> \/ calc.job.skills = << >>)) =>
    calc.score = locationScore(calc.user.location, calc.job.location)
                 + otherComponents

\* a candidate without skills scored 50 on a job that asks for skills
C20_Witness ==
  /\ scored
  /\ calc.user.skills = << >>
  /\ calc.job.skills # << >>
  /\ calc.score = 50

\* C21: a GET /jobs/recommended request of an authenticated candidate is
\* handled by the recommended-jobs handler and answered 200 with the jobs and
\* their match scores; it is never handed to the GET /jobs/:id handler.
C21_RecommendedServed ==
  [][\A actor \in Candidates :
       Get(actor, <<"recommended">>) =>
         last' = [op |-> "recommended", code |-> 200, msg |-> "ok"]]_vars

\* C22: the matchScore calculateMatchScore sets on an application is
\* min(10 * |skills|, 50) + min(5 * |experience|, 30) + min(5 * |education|, 20)
\* of its snapshot lists, lies between 0 and 100, and is the same whatever
\* the job requires.
C22_MatchScoreFormula ==
  calc.called =>
    /\ calc.score = Min(10 * calc.user.skills, 50)
                    + Min(5 * calc.user.experience, 30)
                    + Min(5 * calc.user.education, 20)
    /\ calc.score \in 0..100

\* an application with more skills than the cap counts, on a job that asks
\* for none of them, was scored 100
C22_Witness ==
  /\ calc.called
  /\ calc.user.skills = 6
  /\ calc.job.skills = << >>
  /\ calc.score = 100

\* C23: the save of a scheduleInterview leaves the application with status
\* interview-scheduled and interview.scheduled true, and the save of a
\* makeOffer leaves it with status offered and the submitted terms in the
\* offer sub-record, whatever the status was.
C23_StatusForced ==
  [][\A r \in BagToSet(inflight) :
       /\ (r.op = "interview" /\ Save(r)) =>
            /\ apps'[r.app].status = "interview-scheduled"
            /\ apps'[r.app].interview.scheduled
       /\ (r.op = "offer" /\ Save(r)) =>
            /\ apps'[r.app].status = "offered"
            /\ apps'[r.app].offer = [amount |-> r.upd.amount, accepted |-> FALSE]]_vars

\* C24: the save of an evaluate leaves status, timeline, interview and offer
\* of the application as they were, and every evaluation field that is not
\* in the request keeps the value it had in the store.
C24_EvaluateFrame ==
  [][\A r \in BagToSet(inflight) :
       (r.op = "evaluate" /\ Save(r)) =>
         /\ apps'[r.app].status = apps[r.app].status
         /\ apps'[r.app].timeline = apps[r.app].timeline
         /\ apps'[r.app].interview = apps[r.app].interview
         /\ apps'[r.app].offer = apps[r.app].offer
         /\ \A f \in DOMAIN NoEvaluation :
              r.body[f] = 0 => apps'[r.app].evaluation[f] = apps[r.app].evaluation[f]]_vars

\* the field is there on both sides and equal up to case
tierMatches(field) ==
  /\ calc.user.location[field] # NoString
  /\ calc.job.location[field] # NoString
  /\ toLowerCase(calc.user.location[field]) = toLowerCase(calc.job.location[field])

\* C25: for a job that is not remote the location component is 20 when the
\* cities match up to case, else 15 when the states match, else 10 when the
\* countries match, else 0; a field missing on either side does not match
\* and the tiers never add up.
C25_FirstTierWins ==
  (scored /\ ~calc.job.location.remote) =>
    calc.score =
      roundScore(skillRatio(calc.user.skills, calc.job.skills),
                 (IF tierMatches("city") THEN 20
                  ELSE IF tierMatches("state") THEN 15
                  ELSE IF tierMatches("country") THEN 10
                  ELSE 0) + otherComponents)

\* state and country match but the city does not: 15 and no more
C25_Witness ==
  /\ scored
  /\ ~calc.job.location.remote
  /\ ~tierMatches("city") /\ tierMatches("state") /\ tierMatches("country")
  /\ calc.user.skills = << >>
  /\ otherComponents = 0
  /\ calc.score = 15

\* C26: the status guards hold against the stored status when the save is
\* applied: no withdraw is saved over a stored status of hired, and no
\* acceptOffer is saved on an application whose stored status is not offered.
C26_GuardsHoldAtSave ==
  [][\A r \in BagToSet(inflight) :
       /\ (r.op = "withdraw" /\ Save(r)) => apps[r.app].status # "hired"
       /\ (r.op = "accept-offer" /\ Save(r)) => apps[r.app].status = "offered"]_vars

\* job j is approved in the store
approvedJob(js, j) == j \in DOMAIN js /\ js[j].approved

\* C27: a job becomes approved only in the save of an admin's approve or when
\* an admin or a verified employer creates it: no create and no save of an
\* update requested by an unverified employer makes a job approved.
C27_ApprovedOnlyByAdmin ==
  [][\A j \in JobIds \cup {NewJobId} :
       (approvedJob(jobs', j) /\ ~approvedJob(jobs, j)) =>
         \/ \E r \in BagToSet(inflight) : r.op = "approve-job" /\ SaveJob(r)
         \/ \E actor \in Users, body \in JobBodies :
              /\ autoApproved(actor)
              /\ j = NewJobId
              /\ CreateJob(actor, body)]_vars

\* C29: in every reachable state every stored application references a job
\* that exists.
C29_ApplicationsReferenceJobs ==
  \A a \in 1..Len(apps) : apps[a].job \in DOMAIN jobs

\* C28: a POST /applications that is answered with an error has stored no
\* application: not when the lookup finds one, not when the insert is
\* refused, and not when the match-score save or the applicationCount
\* increment fails after the insert.
C28_ErrorLeavesNoApplication ==
  [][\A r \in BagToSet(inflight) :
       (\/ FindExisting(r) /\ existingApplication(apps, r.job, r.actor)
        \/ Insert(r) /\ apps' = apps
        \/ ScoreFails(r)
        \/ IncrementFails(r)) =>
         /\ last'.code >= 400
         /\ r.app = 0]_vars

\* C30: no request of the admin user routes writes the account of the admin
\* who sent it, and in every reachable state some user has the role admin.
C30_AdminRemains ==
  /\ \A r \in BagToSet(inflight) : r.pc = "save-user" => r.job # r.actor
  /\ \E u \in Users : users[u].role = "admin"

====
